---- MODULE Spec2Model ----
(***************************************************************************)
(* A model of the RagToRiches web application:                             *)
(*   - the upload dialog (FileUploadDialog) and the transcribe-media edge  *)
(*     function it calls                        (specification Spec)       *)
(*   - validateFile as a pure function          (specification SpecValidate)*)
(*   - the gold-prices edge function            (specification SpecGold)   *)
(*   - the hybrid-chat edge function            (specification SpecChat)   *)
(*   - its live-data aggregator, with the intent as an input               *)
(*                                              (specification SpecAgg)    *)
(***************************************************************************)
EXTENDS Integers, Sequences, FiniteSets, TLC

\* ------------------------------------------------------------------ bounds
\* How many times the Upload button starts handleUpload in one behaviour.
MaxRuns == 2

\* ------------------------------------------------------- upload dialog data
ALLOWED_TYPES ==
  { "application/pdf", "text/plain", "image/png", "image/jpeg", "image/jpg",
    "image/webp", "video/mp4", "video/quicktime", "video/webm", "audio/mpeg",
    "audio/wav", "audio/x-wav", "audio/mp4", "audio/x-m4a" }

MAX_FILE_SIZE == 50 * 1024 * 1024

MEDIA_TYPES ==
  { "video/mp4", "video/quicktime", "video/webm", "audio/mpeg", "audio/wav",
    "audio/x-wav", "audio/mp4", "audio/x-m4a" }

\* The limit validateFile uses for everything that is not audio or video.
OtherSizeLimit == 10 * 1024 * 1024

\* MIME types a browser can hand to the dialog that are not in ALLOWED_TYPES.
OtherTypes == { "application/zip", "video/x-msvideo", "audio/ogg", "image/gif", "" }

AllTypes == ALLOWED_TYPES \cup OtherTypes

\* File sizes around both limits.
AllSizes ==
  { 0, 1, OtherSizeLimit - 1, OtherSizeLimit, OtherSizeLimit + 1,
    MAX_FILE_SIZE - 1, MAX_FILE_SIZE, MAX_FILE_SIZE + 1 }

AllFiles == [type : AllTypes, size : AllSizes]

\* selectedFile === null
NoFile == [type |-> "null", size |-> -1]

\* MEDIA_TYPES.includes(type)
MutIsMediaAnyType(type) == TRUE

IsMedia(type) == type \in MEDIA_TYPES

\* isMedia ? MAX_FILE_SIZE : 10 * 1024 * 1024
SizeLimit(type) == IF IsMedia(type) THEN MAX_FILE_SIZE ELSE OtherSizeLimit

\* validateFile: "null" when the file is accepted, else which message it returns.
MutValidateFileSizeExclusive(file) ==
  IF file.type \notin ALLOWED_TYPES THEN "unsupported"
  ELSE IF file.size >= SizeLimit(file.type) THEN "too_large"
  ELSE "null"

MutValidateFileTypeOnly(file) ==
  IF file.type \notin ALLOWED_TYPES THEN "unsupported" ELSE "null"

validateFile(file) ==
  IF file.type \notin ALLOWED_TYPES THEN "unsupported"
  ELSE IF file.size > SizeLimit(file.type) THEN "too_large"
  ELSE "null"

\* Words in a chat query, at most
MaxWords == 2

\* Files the user picks in the dialog: a text file, an image, a media file at its
\* limit, and two files validateFile rejects.
DialogFiles ==
  { [type |-> "text/plain", size |-> 1],
    [type |-> "image/png", size |-> 1],
    [type |-> "audio/mpeg", size |-> MAX_FILE_SIZE],
    [type |-> "application/zip", size |-> 1],
    [type |-> "video/mp4", size |-> MAX_FILE_SIZE + 1] }

VARIABLES
  \* ---- FileUploadDialog (React state and props)
  selectedFile,    \* useState<File | null>
  uploadStatus,    \* useState<UploadStatus>
  uploadProgress,  \* useState(0)
  errorMessage,    \* "" | "unsupported" | "too_large" | "upload_failed"
  open,            \* the open prop, owned by the parent (onOpenChange)
  user,            \* useAuth().user is set
  \* ---- handleUpload invocations: each click is one async run
  runs,            \* run -> [pc, file, content, toast]
  nRuns,           \* runs started so far
  timers,          \* pending setTimeout(..., 2000) callbacks
  completes,       \* calls of onUploadComplete
  \* ---- storage bucket and documents table, keyed by the run's filePath
  storage,         \* run -> the object was stored
  docs,            \* run -> content of the row, or "norow"
  docWrites,       \* run -> updates of the row after its insert
  \* ---- transcribe-media edge function, one request per media run
  handler,         \* run -> [pc, env, dl, ai, upd, aiCalls, updCalls, resp]
  \* ---- validateFile on its own
  vFile, vResult,
  \* ---- detectLanguage on its own
  dlText, dlResult,
  \* ---- gold-prices edge function
  gold,
  \* ---- hybrid-chat edge function
  chat

dialogVars == <<selectedFile, uploadStatus, uploadProgress, errorMessage, open>>
runVars == <<runs, nRuns, timers, completes>>
backendVars == <<storage, docs, docWrites>>
uploadVars == <<dialogVars, user, runVars, backendVars, handler>>
validateVars == <<vFile, vResult>>
langVars == <<dlText, dlResult>>
notUpload == <<validateVars, langVars, gold, chat>>
vars == <<uploadVars, validateVars, langVars, gold, chat>>

Runs == 1..MaxRuns

NoResp == [status |-> 0, success |-> FALSE]

IdleRun == [pc |-> "idle", file |-> NoFile, content |-> "", toast |-> "none"]

\* Which of LOVABLE_API_KEY, SUPABASE_URL and SUPABASE_SERVICE_ROLE_KEY
\* Deno.env.get finds when a request reads them.
Envs == [apiKey : BOOLEAN, url : BOOLEAN, serviceKey : BOOLEAN]

FullEnv == [apiKey |-> TRUE, url |-> TRUE, serviceKey |-> TRUE]

IdleHandler ==
  [pc |-> "none", env |-> FullEnv, dl |-> "none", ai |-> "none", upd |-> "none",
   aiCalls |-> 0, updCalls |-> 0, resp |-> NoResp]

\* The component after its first render, before any request.
InitUpload ==
  /\ selectedFile = NoFile
  /\ uploadStatus = "idle"
  /\ uploadProgress = 0
  /\ errorMessage = ""
  /\ open = TRUE
  /\ user \in BOOLEAN
  /\ runs = [r \in Runs |-> IdleRun]
  /\ nRuns = 0
  /\ timers = 0
  /\ completes = 0
  /\ storage = [r \in Runs |-> FALSE]
  /\ docs = [r \in Runs |-> "norow"]
  /\ docWrites = [r \in Runs |-> 0]
  /\ handler = [r \in Runs |-> IdleHandler]

\* ------------------------------------------------------------ dialog actions
\* resetState (the four setters), as an effect on the primed dialog state.
resetState ==
  /\ selectedFile' = NoFile
  /\ uploadStatus' = "idle"
  /\ uploadProgress' = 0
  /\ errorMessage' = ""

\* The drop zone and both buttons are rendered unless uploadStatus is 'success'.
FormRendered == open /\ uploadStatus # "success"

\* disabled={uploadStatus === 'uploading' || uploadStatus === 'transcribing'}
CancelDisabled == uploadStatus \in {"uploading", "transcribing"}

\* disabled={!selectedFile || uploadStatus === 'uploading' || ... 'transcribing'}
UploadDisabled ==
  selectedFile = NoFile \/ uploadStatus \in {"uploading", "transcribing"}

\* handleClose: resetState(); onOpenChange(false)
handleClose ==
  /\ resetState
  /\ open' = FALSE

\* The body shared by handleFileSelect and handleDrop once a file is there.
AcceptOrReject(file) ==
  IF validateFile(file) # "null"
  THEN /\ errorMessage' = validateFile(file)
       /\ uploadStatus' = "error"
       /\ UNCHANGED <<selectedFile, uploadProgress>>
  ELSE /\ selectedFile' = file
       /\ errorMessage' = ""
       /\ uploadStatus' = "idle"
       /\ UNCHANGED uploadProgress

\* handleFileSelect: the hidden <input type="file"> changed.
HandleFileSelect ==
  /\ FormRendered
  /\ \E file \in DialogFiles \cup {NoFile} :
       IF file = NoFile
       THEN UNCHANGED dialogVars
       ELSE AcceptOrReject(file) /\ UNCHANGED open
  /\ UNCHANGED <<user, runVars, backendVars, handler>>
  /\ UNCHANGED notUpload

\* handleDrop: a file was dropped on the drop zone.
HandleDrop ==
  /\ FormRendered
  /\ \E file \in DialogFiles \cup {NoFile} :
       IF file = NoFile
       THEN UNCHANGED dialogVars
       ELSE AcceptOrReject(file) /\ UNCHANGED open
  /\ UNCHANGED <<user, runVars, backendVars, handler>>
  /\ UNCHANGED notUpload

\* The Cancel button.
CancelClick ==
  /\ FormRendered
  /\ ~CancelDisabled
  /\ handleClose
  /\ UNCHANGED <<user, runVars, backendVars, handler>>
  /\ UNCHANGED notUpload

\* <Dialog onOpenChange={handleClose}>: Escape, the overlay or the close icon.
DialogClose ==
  /\ open
  /\ handleClose
  /\ UNCHANGED <<user, runVars, backendVars, handler>>
  /\ UNCHANGED notUpload

\* The parent shows the dialog again.
Reopen ==
  /\ ~open
  /\ open' = TRUE
  /\ UNCHANGED <<selectedFile, uploadStatus, uploadProgress, errorMessage>>
  /\ UNCHANGED <<user, runVars, backendVars, handler>>
  /\ UNCHANGED notUpload

\* ------------------------------------------------- handleUpload, step by step
\* The run's content string: text, '[PDF Document: ..]', '[Image: ..]' or
\* '[Processing: ..]'; an empty text file reads as ''.
ContentOf(file) ==
  IF file.type = "text/plain" THEN (IF file.size = 0 THEN "" ELSE "text")
  ELSE IF file.type = "application/pdf" THEN "pdf"
  ELSE IF file.type \in {"image/png", "image/jpeg", "image/jpg", "image/webp"}
       THEN "image"
  ELSE IF IsMedia(file.type) THEN "processing"
  ELSE ""

\* content: content || null
RowContent(content) == IF content = "" THEN "null" ELSE content

\* The catch block of handleUpload, run by run r.
MutCatchKeepsStatus(r) ==
  /\ errorMessage' = "upload_failed"
  /\ runs' = [runs EXCEPT ![r].pc = "done", ![r].toast = "failed"]
  /\ UNCHANGED <<selectedFile, uploadStatus, uploadProgress, open, nRuns,
                 timers, completes>>

Catch(r) ==
  /\ uploadStatus' = "error"
  /\ errorMessage' = "upload_failed"
  /\ runs' = [runs EXCEPT ![r].pc = "done", ![r].toast = "failed"]
  /\ UNCHANGED <<selectedFile, uploadProgress, open, nRuns, timers, completes>>

\* The tail of the try block: progress 100, 'success', setTimeout(..., 2000).
Succeed(r, toast) ==
  /\ uploadProgress' = 100
  /\ uploadStatus' = "success"
  /\ timers' = timers + 1
  /\ runs' = [runs EXCEPT ![r].pc = "done", ![r].toast = toast]
  /\ UNCHANGED <<selectedFile, errorMessage, open, nRuns, completes>>

\* The Upload button: handleUpload up to its first await (storage upload).
UploadClick ==
  /\ FormRendered
  /\ ~UploadDisabled
  /\ nRuns < MaxRuns
  /\ IF selectedFile = NoFile \/ ~user
     THEN UNCHANGED <<dialogVars, runVars>>
     ELSE /\ uploadStatus' = "uploading"
          /\ uploadProgress' = 30
          /\ nRuns' = nRuns + 1
          /\ runs' = [runs EXCEPT ![nRuns + 1] =
                        [pc |-> "upload", file |-> selectedFile,
                         content |-> "", toast |-> "none"]]
          /\ UNCHANGED <<selectedFile, errorMessage, open, timers, completes>>
  /\ UNCHANGED <<user, backendVars, handler>>
  /\ UNCHANGED notUpload

\* supabase.storage.from('documents').upload(...) settles.
UploadReturns(r) ==
  /\ runs[r].pc = "upload"
  /\ \E ok \in BOOLEAN :
       IF ~ok
       THEN Catch(r) /\ UNCHANGED backendVars
       ELSE /\ storage' = [storage EXCEPT ![r] = TRUE]
            /\ UNCHANGED <<docs, docWrites>>
            /\ IF runs[r].file.type = "text/plain"
               THEN /\ uploadProgress' = 50
                    /\ runs' = [runs EXCEPT ![r].pc = "text"]
               ELSE /\ uploadProgress' = 60
                    /\ runs' = [runs EXCEPT ![r].pc = "insert",
                                            ![r].content = ContentOf(runs[r].file)]
            /\ UNCHANGED <<selectedFile, uploadStatus, errorMessage, open,
                           nRuns, timers, completes>>
  /\ UNCHANGED <<user, handler>>
  /\ UNCHANGED notUpload

\* await selectedFile.text() settles (text/plain only).
TextReturns(r) ==
  /\ runs[r].pc = "text"
  /\ \E ok \in BOOLEAN :
       IF ~ok
       THEN Catch(r)
       ELSE /\ uploadProgress' = 60
            /\ runs' = [runs EXCEPT ![r].pc = "insert",
                                    ![r].content = ContentOf(runs[r].file)]
            /\ UNCHANGED <<selectedFile, uploadStatus, errorMessage, open,
                           nRuns, timers, completes>>
  /\ UNCHANGED <<user, backendVars, handler>>
  /\ UNCHANGED notUpload

\* supabase.from('documents').insert(...) settles; a media file goes on to
\* 'transcribing' and sends the transcribe-media request.
InsertReturns(r) ==
  /\ runs[r].pc = "insert"
  /\ \E ok \in BOOLEAN :
       IF ~ok
       THEN Catch(r) /\ UNCHANGED <<backendVars, handler>>
       ELSE /\ docs' = [docs EXCEPT ![r] = RowContent(runs[r].content)]
            /\ UNCHANGED <<storage, docWrites>>
            /\ IF IsMedia(runs[r].file.type)
               THEN /\ uploadStatus' = "transcribing"
                    /\ uploadProgress' = 70
                    /\ runs' = [runs EXCEPT ![r].pc = "fetch"]
                    /\ handler' = [handler EXCEPT ![r].pc = "recv"]
                    /\ UNCHANGED <<selectedFile, errorMessage, open, nRuns,
                                   timers, completes>>
               ELSE /\ Succeed(r, "added")
                    /\ UNCHANGED handler
  /\ UNCHANGED user
  /\ UNCHANGED notUpload

\* !transcribeResponse.ok || !transcribeResult.success
TranscriptionFailed(resp) == resp.status # 200 \/ ~resp.success

\* What the client's fetch can settle with: the handler's own response, a
\* rejection (network error), or a non-OK response produced in front of the
\* function (a gateway timeout) whose body is JSON or is not.
TranscribeOutcomes(r) ==
  {"reject", "gateway_json", "gateway_other"}
    \cup (IF handler[r].resp # NoResp THEN {"handler"} ELSE {})

\* await fetch(.../transcribe-media) and await transcribeResponse.json() settle.
TranscribeReturns(r) ==
  /\ runs[r].pc = "fetch"
  /\ \E o \in TranscribeOutcomes(r) :
       LET resp == IF o = "handler" THEN handler[r].resp
                   ELSE [status |-> 504, success |-> FALSE]
       IN IF o \in {"reject", "gateway_other"}
          THEN Catch(r)
          ELSE IF TranscriptionFailed(resp)
          THEN /\ runs' = [runs EXCEPT ![r].pc = "mark"]
               /\ UNCHANGED <<dialogVars, nRuns, timers, completes>>
          ELSE Succeed(r, "transcribed")
  /\ UNCHANGED <<user, backendVars, handler>>
  /\ UNCHANGED notUpload

\* await supabase.from('documents').update({content: '[Transcription failed ..]'})
\* settles (its error is not looked at), then the warning toast and the tail.
MarkFailedReturns(r) ==
  /\ runs[r].pc = "mark"
  /\ \E ok \in BOOLEAN :
       IF ok /\ docs[r] # "norow"
       THEN /\ docs' = [docs EXCEPT ![r] = "failed"]
            /\ docWrites' = [docWrites EXCEPT ![r] = @ + 1]
            /\ UNCHANGED storage
       ELSE UNCHANGED backendVars
  /\ Succeed(r, "warning")
  /\ UNCHANGED <<user, handler>>
  /\ UNCHANGED notUpload

\* The setTimeout callback: handleClose(); onUploadComplete?.()
TimerFires ==
  /\ timers > 0
  /\ timers' = timers - 1
  /\ handleClose
  /\ completes' = completes + 1
  /\ UNCHANGED <<runs, nRuns>>
  /\ UNCHANGED <<user, backendVars, handler>>
  /\ UNCHANGED notUpload

\* ------------------------------------------- transcribe-media edge function
\* The catch block's response: status 500, success false.
ErrorResponse == [status |-> 500, success |-> FALSE]

\* The response after "Transcript saved successfully" (default status 200).
OkResponse == [status |-> 200, success |-> TRUE]

\* !LOVABLE_API_KEY, then !SUPABASE_URL || !SUPABASE_SERVICE_ROLE_KEY
CredentialsMissing(env) == ~env.apiKey \/ ~env.url \/ ~env.serviceKey

\* downloadError || !fileData
DownloadFailed(o) == o # "ok"

\* !response.ok, a thrown fetch, or an empty  choices[0].message.content
MutNoTranscriptEmptyAccepted(o) == o \in {"throw", "nonok"}

NoTranscript(o) == o # "ok"

\* updateError
MutUpdateFailedIgnored(o) == FALSE

UpdateFailed(o) == o # "ok"

\* A throw anywhere in the try block ends in the catch block's response.
Throw(r) == [handler EXCEPT ![r].pc = "done", ![r].resp = ErrorResponse]

\* The request arrives: req.json(), Deno.env.get, the two credential checks,
\* createClient, and the storage download is started.
HStart(r) ==
  /\ handler[r].pc = "recv"
  /\ \E env \in Envs :
       handler' = IF CredentialsMissing(env)
                  THEN [Throw(r) EXCEPT ![r].env = env]
                  ELSE [handler EXCEPT ![r].pc = "download", ![r].env = env]
  /\ UNCHANGED <<dialogVars, user, runVars, backendVars>>
  /\ UNCHANGED notUpload

\* The download settles; on success the file is encoded and the one AI gateway
\* request is sent.
HDownload(r) ==
  /\ handler[r].pc = "download"
  /\ \E o \in {"ok", "error"} :
       handler' = IF DownloadFailed(o)
                  THEN [Throw(r) EXCEPT ![r].dl = o]
                  ELSE [handler EXCEPT ![r].pc = "ai", ![r].dl = o,
                                       ![r].aiCalls = @ + 1]
  /\ UNCHANGED <<dialogVars, user, runVars, backendVars>>
  /\ UNCHANGED notUpload

\* The AI gateway call settles: it throws, answers non-OK, answers with no
\* text, or answers with a transcript; then the row update is sent.
HTranscribe(r) ==
  /\ handler[r].pc = "ai"
  /\ \E o \in {"throw", "nonok", "empty", "ok"} :
       handler' = IF NoTranscript(o)
                  THEN [Throw(r) EXCEPT ![r].ai = o]
                  ELSE [handler EXCEPT ![r].pc = "update", ![r].ai = o,
                                       ![r].updCalls = @ + 1]
  /\ UNCHANGED <<dialogVars, user, runVars, backendVars>>
  /\ UNCHANGED notUpload

\* The update of the row matching (file_path, user_id) settles.
HUpdate(r) ==
  /\ handler[r].pc = "update"
  /\ \E o \in {"ok", "error"} :
       /\ IF o = "ok" /\ docs[r] # "norow"
          THEN /\ docs' = [docs EXCEPT ![r] = "transcript"]
               /\ docWrites' = [docWrites EXCEPT ![r] = @ + 1]
               /\ UNCHANGED storage
          ELSE UNCHANGED backendVars
       /\ handler' = IF UpdateFailed(o)
                     THEN [Throw(r) EXCEPT ![r].upd = o]
                     ELSE [handler EXCEPT ![r].pc = "done", ![r].upd = o,
                                          ![r].resp = OkResponse]
  /\ UNCHANGED <<dialogVars, user, runVars>>
  /\ UNCHANGED notUpload

\* One whole invocation of the function as the dialog sees it, in one step:
\* either every step succeeded, the transcript is stored in the row and the
\* answer is the 200 response, or a step failed and the answer is the catch
\* block's response with the row left alone (which step failed is not kept).
HServe(r) ==
  /\ handler[r].pc = "recv"
  /\ \E ok \in BOOLEAN :
       IF ok
       THEN /\ IF docs[r] # "norow"
               THEN /\ docs' = [docs EXCEPT ![r] = "transcript"]
                    /\ docWrites' = [docWrites EXCEPT ![r] = @ + 1]
                    /\ UNCHANGED storage
               ELSE UNCHANGED backendVars
            /\ handler' = [handler EXCEPT
                             ![r].pc = "done", ![r].dl = "ok", ![r].ai = "ok",
                             ![r].upd = "ok", ![r].aiCalls = 1,
                             ![r].updCalls = 1, ![r].resp = OkResponse]
       ELSE /\ UNCHANGED backendVars
            /\ handler' = Throw(r)
  /\ UNCHANGED <<dialogVars, user, runVars>>
  /\ UNCHANGED notUpload

\* A POST to transcribe-media from any client (not only the dialog): the row
\* for (filePath, userId) may exist or not.
HRequest(r) ==
  /\ handler[r].pc = "none"
  /\ docs[r] = "norow"
  /\ handler' = [handler EXCEPT ![r].pc = "recv"]
  /\ \E row \in {"norow", "processing"} : docs' = [docs EXCEPT ![r] = row]
  /\ UNCHANGED <<dialogVars, user, runVars, storage, docWrites>>
  /\ UNCHANGED notUpload

\* ------------------------------------------------------ validateFile alone
\* A file object reaches validateFile.
PickFile ==
  /\ \E file \in AllFiles : vFile' = file
  /\ vResult' = "none"
  /\ UNCHANGED <<uploadVars, langVars, gold, chat>>

\* validateFile(file) returns.
Validate ==
  /\ vFile # NoFile
  /\ vResult' = validateFile(vFile)
  /\ UNCHANGED <<vFile, uploadVars, langVars, gold, chat>>

\* ------------------------------------------------ gold-prices edge function
\* What a gold-price provider call can do: throw, answer non-OK, answer OK with
\* a body that is not JSON, answer OK without the price field, or answer OK
\* with a numeric price (USD per troy ounce).
GoldPrices == {-5, 0, 50, 99, 100, 101, 2000}

ProviderOutcomes ==
  [kind : {"throw", "nonok", "badjson", "noprice"}, price : {0}]
    \cup [kind : {"price"}, price : GoldPrices]

NoOutcome == [kind |-> "none", price |-> 0]

\* USD->INR rates an exchange-rate answer can carry, in hundredths of a rupee.
InrRates == {0, 1, 8350, 9012}

ExchangeOutcomes ==
  [kind : {"throw", "nonok", "badjson", "norate"}, rate : {0}]
    \cup [kind : {"rate"}, rate : InrRates]

\* 83.5, in hundredths
DefaultUsdToInr == 8350

\* 2680
FallbackGoldPriceUSD == 2680

\* JavaScript truthiness of a number (NaN does not come out of JSON).
Truthy(n) == n # 0

\* What goldPriceUSD is after a provider's try block: assigned only when the
\* call answered OK, its body parsed and its price field is truthy.
AfterProvider(current, o) ==
  IF o.kind = "price" /\ Truthy(o.price) THEN o.price ELSE current

\* if (!goldPriceUSD): the secondary provider is tried.
MutNeedsSecondaryBelow100(price) == price < 100

NeedsSecondary(price) == ~Truthy(price)

\* if (!goldPriceUSD || goldPriceUSD < 100): the constant is substituted.
MutNeedsFallbackNoThreshold(price) == ~Truthy(price)

NeedsFallback(price) == ~Truthy(price) \/ price < 100

\* exchangeData.rates?.INR || 83.5, and 83.5 when the answer is not OK.
UsdToInr(o) ==
  IF o.kind = "rate" /\ Truthy(o.rate) THEN o.rate ELSE DefaultUsdToInr

\* 31.1035 grams in a troy ounce, in ten-thousandths
GramsPerTroyOunce == 311035

\* The purities of the price table, in karats: 1.0, 22 / 24 and 18 / 24.
Karats == {24, 22, 18}

\* round(n * m * grams / d) for grams 1 or 10, as (x).toFixed(2) rounds a
\* positive x to the nearest hundredth; the division is done in two steps so
\* that no intermediate product leaves the 32-bit range.
ToFixed2(n, m, grams, d) ==
  LET a == (n % d) * m
  IN grams * ((n \div d) * m + (a \div d))
       + ((2 * grams * (a % d) + d) \div (2 * d))

\* (pricePerGramINR * purity).toFixed(2) and (pricePer10GramsINR *
\* purity).toFixed(2), in paise: goldPriceUSD / 31.1035 * usdToInr * karat / 24
\* times 1 or 10 grams, with usdToInr in hundredths. The fraction
\* 10000 * karat / (311035 * 24) is reduced by 40 to 250 * karat / 186621.
MutPriceINRSamePurity(goldPriceUSD, usdToInr, karat, grams) ==
  ToFixed2(goldPriceUSD * usdToInr, 250 * 24, grams,
           (GramsPerTroyOunce * 24) \div 40)

PriceINR(goldPriceUSD, usdToInr, karat, grams) ==
  ToFixed2(goldPriceUSD * usdToInr, 250 * karat, grams,
           (GramsPerTroyOunce * 24) \div 40)

\* data.prices of the response: karat -> perGram and per10Grams.
PriceTable(goldPriceUSD, usdToInr) ==
  [k \in Karats |->
     [perGram |-> PriceINR(goldPriceUSD, usdToInr, k, 1),
      per10Grams |-> PriceINR(goldPriceUSD, usdToInr, k, 10)]]

NoGoldResp ==
  [status |-> 0, success |-> FALSE, pricePerOunceUSD |-> 0, exchangeRate |-> 0,
   prices |-> [k \in Karats |-> [perGram |-> 0, per10Grams |-> 0]]]

IdleGold ==
  [pc |-> "idle", goldPriceUSD |-> 0, a |-> NoOutcome, b |-> NoOutcome,
   ex |-> [kind |-> "none", rate |-> 0], fetched |-> 0, bAttempted |-> FALSE,
   usedConstant |-> FALSE, resp |-> NoGoldResp]

\* The final fallback (lines 56-59), after which the exchange-rate call starts.
GoldFallback(g, price) ==
  [g EXCEPT !.pc = "fetchEx",
            !.fetched = price,
            !.usedConstant = NeedsFallback(price),
            !.goldPriceUSD = IF NeedsFallback(price)
                             THEN FallbackGoldPriceUSD ELSE price]

\* A GET arrives: goldPriceUSD = 0 and the primary provider is called.
GoldRequest ==
  /\ gold.pc = "idle"
  /\ gold' = [IdleGold EXCEPT !.pc = "fetchA"]
  /\ UNCHANGED <<uploadVars, validateVars, langVars, chat>>

\* The primary call settles (its try/catch), then either the secondary provider
\* is called or the final fallback runs and the exchange-rate call starts.
GoldPrimaryReturns ==
  /\ gold.pc = "fetchA"
  /\ \E o \in ProviderOutcomes :
       LET price == AfterProvider(gold.goldPriceUSD, o)
           g == [gold EXCEPT !.a = o, !.goldPriceUSD = price]
       IN gold' = IF NeedsSecondary(price)
                  THEN [g EXCEPT !.pc = "fetchB", !.bAttempted = TRUE]
                  ELSE GoldFallback(g, price)
  /\ UNCHANGED <<uploadVars, validateVars, langVars, chat>>

\* The secondary call settles, the final fallback runs and the exchange-rate
\* call starts.
GoldSecondaryReturns ==
  /\ gold.pc = "fetchB"
  /\ \E o \in ProviderOutcomes :
       LET price == AfterProvider(gold.goldPriceUSD, o)
       IN gold' = GoldFallback([gold EXCEPT !.b = o], price)
  /\ UNCHANGED <<uploadVars, validateVars, langVars, chat>>

\* The exchange-rate call settles: a throw (of fetch or of json()) reaches the
\* outer catch, anything else ends in the 200 response.
GoldExchangeReturns ==
  /\ gold.pc = "fetchEx"
  /\ \E o \in ExchangeOutcomes :
       gold' = [gold EXCEPT
                  !.pc = "done",
                  !.ex = o,
                  !.resp = IF o.kind \in {"throw", "badjson"}
                           THEN [NoGoldResp EXCEPT !.status = 500]
                           ELSE [status |-> 200, success |-> TRUE,
                                 pricePerOunceUSD |-> gold.goldPriceUSD,
                                 exchangeRate |-> UsdToInr(o),
                                 prices |-> PriceTable(gold.goldPriceUSD,
                                                       UsdToInr(o))]]
  /\ UNCHANGED <<uploadVars, validateVars, langVars, chat>>

\* ------------------------------------------------- hybrid-chat edge function
\* A query is a sequence of words; a word has its text (transliterated) and
\* the script its characters are in.
Words ==
  { [text |-> "stock", script |-> "latin"],
    [text |-> "gold", script |-> "latin"],
    [text |-> "news", script |-> "latin"],
    [text |-> "election", script |-> "latin"],
    [text |-> "kya", script |-> "latin"],
    [text |-> "what", script |-> "latin"],
    [text |-> "sona", script |-> "devanagari"],
    [text |-> "sona", script |-> "arabic"] }

Queries == UNION { [1..n -> Words] : n \in 0..MaxWords }

\* The four live-data sources, in the order the handler pushes their promises.
Sources == <<"stock", "gold", "news", "politics">>

SourceSet == {Sources[i] : i \in 1..Len(Sources)}

\* STOCK_KEYWORDS, GOLD_KEYWORDS, NEWS_KEYWORDS, POLITICS_KEYWORDS: which
\* source's list holds a word of the vocabulary.
KeywordSource(word) ==
  IF word.text = "stock" THEN "stock"
  ELSE IF word.text \in {"gold", "sona"} THEN "gold"
  ELSE IF word.text = "news" THEN "news"
  ELSE IF word.text = "election" THEN "politics"
  ELSE "none"

\* Words in a text given to detectLanguage, at most
MaxTextWords == 3

\* The vocabulary of those texts: the words of the queries, the words of
\* "kya hai yeh" and "what is this", a keyword in upper case, and a word that
\* holds a keyword ("ke") without being one.
LangWords ==
  Words \cup
  { [text |-> "hai", script |-> "latin"],
    [text |-> "yeh", script |-> "latin"],
    [text |-> "KYA", script |-> "latin"],
    [text |-> "is", script |-> "latin"],
    [text |-> "this", script |-> "latin"],
    [text |-> "market", script |-> "latin"] }

Texts == UNION { [1..n -> LangWords] : n \in 0..MaxTextWords }

\* The alternatives of hinglishPatterns.
HinglishKeywords ==
  { "kya", "hai", "hain", "kaise", "kab", "kitna", "kitne", "aaj", "kal",
    "mein", "ka", "ki", "ke", "ko", "se", "par", "aur", "ya", "nahi", "nahin",
    "bahut", "accha", "theek", "sab", "bhi", "yeh", "woh", "kuch", "kaisa",
    "kaisi", "kahan", "kyun", "abhi", "phir", "lekin", "magar", "toh", "na",
    "ji", "haan", "arre", "yaar", "bhai", "dost" }

\* The i flag of the pattern: a word in lower case (the vocabulary has one
\* word with upper-case letters).
LowerCase(text) == IF text = "KYA" THEN "kya" ELSE text

\* The Hinglish pattern \b(kya|hai|...)\b with the i flag, on one word: the
\* word, a maximal run of Latin letters, is one of the alternatives.
HinglishWord(word) ==
  word.script = "latin" /\ LowerCase(word.text) \in HinglishKeywords

\* detectLanguage: Devanagari first, then Arabic script, then Hinglish words.
MutDetectLanguageArabicFirst(text) ==
  IF \E i \in 1..Len(text) : text[i].script = "arabic" THEN "urdu"
  ELSE IF \E i \in 1..Len(text) : text[i].script = "devanagari" THEN "hindi"
  ELSE IF \E i \in 1..Len(text) : HinglishWord(text[i]) THEN "hinglish"
  ELSE "english"

detectLanguage(text) ==
  IF \E i \in 1..Len(text) : text[i].script = "devanagari" THEN "hindi"
  ELSE IF \E i \in 1..Len(text) : text[i].script = "arabic" THEN "urdu"
  ELSE IF \E i \in 1..Len(text) : HinglishWord(text[i]) THEN "hinglish"
  ELSE "english"

\* detectLanguage(text) is called and returns (one call per behaviour).
DetectLanguage ==
  /\ dlResult = "none"
  /\ \E text \in Texts :
       /\ dlText' = text
       /\ dlResult' = detectLanguage(text)
  /\ UNCHANGED <<uploadVars, validateVars, gold, chat>>

\* detectIntent: every live-data flag false, needsRAG true.
MutDetectIntentByKeyword(query) ==
  [needs |-> [s \in SourceSet |->
                \E i \in 1..Len(query) : KeywordSource(query[i]) = s],
   needsRAG |-> TRUE,
   detectedLanguage |-> detectLanguage(query)]

detectIntent(query) ==
  [needs |-> [s \in SourceSet |-> FALSE],
   needsRAG |-> TRUE,
   detectedLanguage |-> detectLanguage(query)]

\* Every value of the QueryIntent type's four live-data flags.
Intents ==
  [needs : [SourceSet -> BOOLEAN], needsRAG : {TRUE}, detectedLanguage : {"english"}]

\* languagePreference of the request body; "undefined" and "" are falsy.
Preferences == {"undefined", "", "auto", "english", "hindi", "french"}

\* languagePreference && languagePreference !== 'auto' ? ... : ...
EffectiveLanguage(pref, detected) ==
  IF pref \notin {"undefined", ""} /\ pref # "auto" THEN pref ELSE detected

\* languageInstructions[effectiveLanguage] || languageInstructions.english: the
\* language whose instruction block the prompt carries.
LangInstruction(effectiveLanguage) ==
  IF effectiveLanguage \in {"english", "hindi", "hinglish", "urdu"}
  THEN effectiveLanguage ELSE "english"

\* effectiveLanguage.toUpperCase(), for the language tags of the model.
ToUpperCase(language) ==
  CASE language = "english" -> "ENGLISH"
    [] language = "hindi" -> "HINDI"
    [] language = "hinglish" -> "HINGLISH"
    [] language = "urdu" -> "URDU"
    [] language = "french" -> "FRENCH"
    [] OTHER -> language

\* documents of the request body: absent, or a list of documents, each given
\* by its content: '' (empty), "blank" (white space only) or "text".
Documents ==
  { [given |-> FALSE, docs |-> <<>>] } \cup
  { [given |-> TRUE, docs |-> d] :
      d \in { <<>>, <<"">>, <<"blank">>, <<"text">>, <<"blank", "text">> } }

NoDocuments == [given |-> FALSE, docs |-> <<>>]

\* documentContext: the header once documents is a non-empty list, and one
\* excerpt, numbered by its position, for each document whose content is truthy.
DocumentContext(documents) ==
  [header |-> documents.given /\ Len(documents.docs) > 0,
   excerpts |-> { [index |-> i, content |-> documents.docs[i]] :
                    i \in {j \in 1..Len(documents.docs) : documents.docs[j] # ""} }]

\* hasDocuments: some document has content that is not empty after trim().
HasDocuments(documents) ==
  /\ documents.given /\ Len(documents.docs) > 0
  /\ \E i \in 1..Len(documents.docs) : documents.docs[i] \notin {"", "blank"}

\* The system prompt, by the values its template interpolates: the language
\* name (twice, lines 290 and 305), the instruction block and, when
\* hasDocuments, documentContext; embeds names the interpolated variables.
NoPrompt ==
  [language |-> "", langInstruction |-> "", hasDocuments |-> FALSE,
   documentContext |-> DocumentContext(NoDocuments), embeds |-> {}]

MutSystemPromptHybrid(effectiveLanguage, documents) ==
  [language |-> ToUpperCase(effectiveLanguage),
   langInstruction |-> LangInstruction(effectiveLanguage),
   hasDocuments |-> HasDocuments(documents),
   documentContext |-> DocumentContext(documents),
   embeds |-> {"effectiveLanguage", "langInstruction", "liveDataContext",
               "documentContext"}]

SystemPrompt(effectiveLanguage, documents) ==
  [language |-> ToUpperCase(effectiveLanguage),
   langInstruction |-> LangInstruction(effectiveLanguage),
   hasDocuments |-> HasDocuments(documents),
   documentContext |-> IF HasDocuments(documents)
                       THEN DocumentContext(documents)
                       ELSE DocumentContext(NoDocuments),
   embeds |-> {"effectiveLanguage", "langInstruction"}
                \cup (IF HasDocuments(documents)
                      THEN {"documentContext"} ELSE {})]

\* LOVABLE_API_KEY, SUPABASE_URL, SUPABASE_ANON_KEY as Deno.env.get finds them.
ChatEnvs == [apiKey : BOOLEAN, url : BOOLEAN, anonKey : BOOLEAN]

\* intent.needsXData && SUPABASE_URL && SUPABASE_ANON_KEY, for the four sources:
\* the fetchers whose promises are pushed.
Started(intent, env) ==
  {s \in SourceSet : intent.needs[s] /\ env.url /\ env.anonKey}

\* What one fetcher's call can do, and the string the fetcher resolves to: the
\* summary when data.success and the data are there, '' otherwise (a throw of
\* fetch, of json() or while formatting is caught).
CallOutcomes == {"throw", "badjson", "unsuccessful", "malformed", "ok"}

FetcherResult(s, o) == IF o = "ok" THEN s ELSE ""

\* liveDataResults.filter(d => d).join('\n'): the non-empty results, in the
\* order of the promise array.
RECURSIVE JoinNonEmpty(_, _)
JoinNonEmpty(order, results) ==
  IF order = <<>> THEN <<>>
  ELSE LET rest == JoinNonEmpty(Tail(order), results)
       IN IF results[Head(order)] = "" THEN rest
          ELSE <<results[Head(order)]>> \o rest

\* The promise array: the started sources in push order.
PromiseOrder(started) == SelectSeq(Sources, LAMBDA s : s \in started)

MutLiveDataContextCompletionOrder(c) == JoinNonEmpty(c.completed, c.results)

LiveDataContext(c) == JoinNonEmpty(PromiseOrder(c.started), c.results)

\* The status of the handler's response to a gateway answer that is not OK.
MutGatewayErrorStatusAlways500(status) == 500

GatewayErrorStatus(status) ==
  IF status = 429 THEN 429 ELSE IF status = 402 THEN 402 ELSE 500

\* What the gateway call can do: throw, or answer with a status.
GatewayOutcomes == {0, 200, 201, 400, 401, 402, 429, 500, 503}

\* response.ok
ResponseOk(status) == status >= 200 /\ status <= 299

IdleChat ==
  [pc |-> "idle", query |-> <<>>, pref |-> "undefined",
   env |-> [apiKey |-> TRUE, url |-> TRUE, anonKey |-> TRUE],
   intent |-> detectIntent(<<>>), effectiveLanguage |-> "english",
   started |-> {}, calls |-> [s \in SourceSet |-> 0],
   outcomes |-> [s \in SourceSet |-> "none"],
   results |-> [s \in SourceSet |-> ""], completed |-> <<>>,
   liveDataContext |-> <<>>, documents |-> NoDocuments,
   systemPrompt |-> NoPrompt, gatewayCalls |-> 0, gateway |-> -1, status |-> 0]

\* The handler from the request to its first await on the fetchers: the key
\* check, the intent, the effective language and the pushed fetcher calls.
StartChat(query, pref, documents, env, intent) ==
  LET c == [IdleChat EXCEPT !.query = query, !.pref = pref, !.env = env,
                            !.documents = documents]
  IN IF ~env.apiKey
     THEN [c EXCEPT !.pc = "done", !.status = 500]
     ELSE [c EXCEPT
             !.pc = "join",
             !.intent = intent,
             !.effectiveLanguage = EffectiveLanguage(pref, intent.detectedLanguage),
             !.started = Started(intent, env),
             !.calls = [s \in SourceSet |->
                          IF s \in Started(intent, env) THEN 1 ELSE 0],
             !.results = [s \in SourceSet |->
                            IF s \in Started(intent, env) THEN "pending" ELSE ""]]

\* A POST arrives at hybrid-chat.
ChatRequest ==
  /\ chat.pc = "idle"
  /\ \E query \in Queries, pref \in Preferences, documents \in Documents,
        env \in ChatEnvs :
       chat' = StartChat(query, pref, documents, env, detectIntent(query))
  /\ UNCHANGED <<uploadVars, validateVars, langVars, gold>>

\* The same entry with the intent as an input: every QueryIntent value.
AggregatorRequest ==
  /\ chat.pc = "idle"
  /\ \E intent \in Intents, documents \in Documents, env \in ChatEnvs :
       chat' = StartChat(<<>>, "undefined", documents, env, intent)
  /\ UNCHANGED <<uploadVars, validateVars, langVars, gold>>

\* One fetcher's promise resolves (fetchStockData, fetchGoldData,
\* fetchNewsData or fetchPoliticsData).
FetcherReturns(s) ==
  /\ chat.pc = "join"
  /\ s \in chat.started
  /\ chat.results[s] = "pending"
  /\ \E o \in CallOutcomes :
       chat' = [chat EXCEPT !.outcomes[s] = o,
                            !.results[s] = FetcherResult(s, o),
                            !.completed = Append(@, s)]
  /\ UNCHANGED <<uploadVars, validateVars, langVars, gold>>

\* Promise.all resolves: every pushed promise has resolved (no fetcher
\* rejects); the context and the prompt are built and the gateway is called.
ChatJoin ==
  /\ chat.pc = "join"
  /\ \A s \in chat.started : chat.results[s] # "pending"
  /\ chat' = [chat EXCEPT !.pc = "gateway",
                          !.liveDataContext = LiveDataContext(chat),
                          !.systemPrompt = SystemPrompt(chat.effectiveLanguage,
                                                        chat.documents),
                          !.gatewayCalls = @ + 1]
  /\ UNCHANGED <<uploadVars, validateVars, langVars, gold>>

\* The gateway call settles: a throw ends in the catch block (500), a non-OK
\* answer is mapped, an OK answer is streamed back (status 200).
ChatGatewayReturns ==
  /\ chat.pc = "gateway"
  /\ \E o \in GatewayOutcomes :
       chat' = [chat EXCEPT
                  !.pc = "done",
                  !.gateway = o,
                  !.status = IF o = 0 THEN 500
                             ELSE IF ~ResponseOk(o) THEN GatewayErrorStatus(o)
                             ELSE 200]
  /\ UNCHANGED <<uploadVars, validateVars, langVars, gold>>

\* ---------------------------------------------------------- specification
Init ==
  /\ InitUpload
  /\ vFile = NoFile /\ vResult = "none"
  /\ dlText = <<>> /\ dlResult = "none"
  /\ gold = IdleGold
  /\ chat = IdleChat

Next ==
  \/ HandleFileSelect
  \/ HandleDrop
  \/ CancelClick
  \/ DialogClose
  \/ Reopen
  \/ UploadClick
  \/ TimerFires
  \/ \E r \in Runs : UploadReturns(r)
  \/ \E r \in Runs : TextReturns(r)
  \/ \E r \in Runs : InsertReturns(r)
  \/ \E r \in Runs : TranscribeReturns(r)
  \/ \E r \in Runs : MarkFailedReturns(r)
  \/ \E r \in Runs : HStart(r)
  \/ \E r \in Runs : HDownload(r)
  \/ \E r \in Runs : HTranscribe(r)
  \/ \E r \in Runs : HUpdate(r)

Spec == Init /\ [][Next]_vars

\* The dialog under the scheduling the browser gives it: every awaited call
\* of a handleUpload run settles, and a pending setTimeout callback runs. No
\* user action and no answer of the edge function is required to happen; the
\* edge function is taken one invocation at a step.
Fairness ==
  /\ \A r \in Runs :
       /\ WF_vars(UploadReturns(r))
       /\ WF_vars(TextReturns(r))
       /\ WF_vars(InsertReturns(r))
       /\ WF_vars(TranscribeReturns(r))
       /\ WF_vars(MarkFailedReturns(r))
  /\ WF_vars(TimerFires)

NextLive ==
  \/ HandleFileSelect
  \/ HandleDrop
  \/ CancelClick
  \/ DialogClose
  \/ Reopen
  \/ UploadClick
  \/ TimerFires
  \/ \E r \in Runs : UploadReturns(r)
  \/ \E r \in Runs : TextReturns(r)
  \/ \E r \in Runs : InsertReturns(r)
  \/ \E r \in Runs : TranscribeReturns(r)
  \/ \E r \in Runs : MarkFailedReturns(r)
  \/ \E r \in Runs : HServe(r)

SpecLive == Init /\ [][NextLive]_vars /\ Fairness

\* The transcribe-media function on its own, serving requests of any client.
NextTranscribe ==
  \/ \E r \in Runs : HRequest(r)
  \/ \E r \in Runs : HStart(r)
  \/ \E r \in Runs : HDownload(r)
  \/ \E r \in Runs : HTranscribe(r)
  \/ \E r \in Runs : HUpdate(r)

SpecTranscribe == Init /\ [][NextTranscribe]_vars

\* validateFile applied to files of every type and size.
NextValidate ==
  \/ PickFile
  \/ Validate

SpecValidate == Init /\ [][NextValidate]_vars

\* One invocation of the gold-prices function (invocations share no state).
NextGold ==
  \/ GoldRequest
  \/ GoldPrimaryReturns
  \/ GoldSecondaryReturns
  \/ GoldExchangeReturns

SpecGold == Init /\ [][NextGold]_vars

\* One invocation of the hybrid-chat function (invocations share no state).
NextChat ==
  \/ ChatRequest
  \/ ChatJoin
  \/ ChatGatewayReturns

SpecChat == Init /\ [][NextChat]_vars

\* The live-data aggregator of hybrid-chat with the intent as its input.
NextAgg ==
  \/ AggregatorRequest
  \/ \E s \in SourceSet : FetcherReturns(s)
  \/ ChatJoin
  \/ ChatGatewayReturns

SpecAgg == Init /\ [][NextAgg]_vars

\* detectLanguage applied to texts of up to MaxTextWords words.
NextLanguage ==
  \/ DetectLanguage

SpecLanguage == Init /\ [][NextLanguage]_vars

\* ------------------------------------------------------------------ claims
\* C1 (as stated): the status only moves along idle -> uploading ->
\* (transcribing) -> success | error. Read as generously as the claim allows:
\* a reset to 'idle' and a validation error before an upload are let through;
\* 'uploading' needs a run to start, 'transcribing' comes from 'uploading' for
\* a media file, 'success' and the upload's 'error' come from 'uploading' or
\* 'transcribing'.
C1_Allowed ==
  \/ uploadStatus' = uploadStatus
  \/ uploadStatus' = "idle"
  \/ /\ uploadStatus' = "uploading"
     /\ nRuns' = nRuns + 1
  \/ /\ uploadStatus' = "transcribing"
     /\ uploadStatus = "uploading"
     /\ \E r \in Runs : /\ runs[r].pc = "insert" /\ runs'[r].pc = "fetch"
                         /\ IsMedia(runs[r].file.type)
  \/ /\ uploadStatus' = "success"
     /\ uploadStatus \in {"uploading", "transcribing"}
  \/ /\ uploadStatus' = "error"
     /\ \/ uploadStatus \in {"uploading", "transcribing"}
        \/ errorMessage' \in {"unsupported", "too_large"}

C1_StatusMachine == [][C1_Allowed]_vars

\* C2 (as stated): once a media file is stored and its row inserted, no
\* failure of the transcription step fails the upload: the run that was
\* waiting for the transcription ends with the dialog in 'success' and the
\* warning or the success toast, never in the catch block.
C2_Finishes(r) == runs[r].pc \in {"fetch", "mark"} /\ runs'[r].pc = "done"

C2_TranscriptionFailureNonFatal ==
  [][\A r \in Runs :
       C2_Finishes(r) =>
         /\ uploadStatus' = "success"
         /\ runs'[r].toast \in {"warning", "transcribed"}
         /\ docs'[r] # "norow"]_vars

\* C3: the transcription handler answers 500 with success=false whenever a
\* credential is absent, the download fails, the AI call throws, answers
\* non-OK or answers with no text, or the row update fails; it answers 200
\* with success=true exactly when every step succeeded; it has answered as
\* soon as a step failed, and it sends the row update at most once.
C3_AllSucceeded(h) ==
  /\ h.env.apiKey /\ h.env.url /\ h.env.serviceKey
  /\ h.dl = "ok" /\ h.ai = "ok" /\ h.upd = "ok"

C3_SomeFailed(h) ==
  \/ h.pc \notin {"none", "recv"} /\ ~(h.env.apiKey /\ h.env.url /\ h.env.serviceKey)
  \/ h.dl = "error"
  \/ h.ai \in {"throw", "nonok", "empty"}
  \/ h.upd = "error"

C3_HandlerResponse ==
  \A r \in Runs :
    LET h == handler[r] IN
      /\ C3_SomeFailed(h) => h.pc = "done" /\ h.resp = [status |-> 500, success |-> FALSE]
      /\ h.resp.status = 200 \/ h.resp.success => C3_AllSucceeded(h)
      /\ C3_AllSucceeded(h) => h.resp = [status |-> 200, success |-> TRUE]
      /\ h.pc = "done" <=> h.resp # NoResp
      /\ h.updCalls <= 1

\* One request failed at the row update, after its transcript was produced,
\* and another one succeeded.
C3_Witness ==
  \E r1, r2 \in Runs :
    /\ handler[r1].ai = "ok" /\ handler[r1].upd = "error"
    /\ handler[r1].resp.status = 500
    /\ handler[r2].upd = "ok" /\ handler[r2].resp.success

\* C4 (as stated): the USD-per-ounce figure the gold handler uses and returns
\* is strictly greater than 100.
C4_PriceAbove100 ==
  gold.pc \in {"fetchEx", "done"} => gold.goldPriceUSD > 100

\* C4 (amended): the figure the handler uses after the final fallback, and the
\* one in every 200 response, is at least 100.
C4_PriceAtLeast100 ==
  /\ gold.pc \in {"fetchEx", "done"} => gold.goldPriceUSD >= 100
  /\ gold.resp.status = 200 =>
       gold.resp.pricePerOunceUSD = gold.goldPriceUSD /\ gold.resp.pricePerOunceUSD >= 100

\* A response carries the constant after both providers failed.
C4_Witness ==
  /\ gold.pc = "done" /\ gold.resp.status = 200
  /\ gold.a.kind = "throw" /\ gold.b.kind = "nonok"
  /\ gold.resp.pricePerOunceUSD = FallbackGoldPriceUSD

\* C5 (as stated): no failure of an upstream provider (the exchange-rate one
\* included) makes the handler fail: every response is a 200 with success=true,
\* and a failed exchange-rate call gives the default rate.
C5_NeverFails ==
  gold.pc = "done" =>
    /\ gold.resp.status = 200 /\ gold.resp.success
    /\ gold.ex.kind # "rate" => gold.resp.exchangeRate = DefaultUsdToInr

\* C6 (as stated): provider B is attempted exactly when provider A failed or
\* yielded no price; the constant is used exactly when there is no price or the
\* price is below 100 after the attempts; A's price is never replaced by B's.
C6_ANoPrice == gold.a.kind \in {"throw", "nonok", "badjson", "noprice"}

C6_Order ==
  gold.pc \in {"fetchB", "fetchEx", "done"} =>
    /\ gold.a # NoOutcome
    /\ gold.bAttempted <=> C6_ANoPrice
    /\ gold.a.kind = "price" => gold.b = NoOutcome

\* C6 (amended): a price of 0 counts as no price. B is attempted exactly when
\* A failed, yielded no price or yielded 0; the constant is used exactly when
\* the price after the attempts is 0 (none) or below 100; a non-zero price from
\* A is never replaced by B's price (only, when below 100, by the constant).
C6_OrderZeroIsNoPrice ==
  /\ gold.pc \in {"fetchB", "fetchEx", "done"} =>
       /\ gold.a # NoOutcome
       /\ gold.bAttempted <=> (C6_ANoPrice \/ gold.a.price = 0)
       /\ ~gold.bAttempted => gold.b = NoOutcome
  /\ gold.pc = "fetchB" => gold.b = NoOutcome
  /\ gold.pc \in {"fetchEx", "done"} =>
       /\ gold.bAttempted => gold.b # NoOutcome
       /\ gold.usedConstant <=> (gold.fetched = 0 \/ gold.fetched < 100)
       /\ gold.goldPriceUSD =
            IF gold.usedConstant THEN FallbackGoldPriceUSD ELSE gold.fetched
       /\ gold.a.kind = "price" /\ gold.a.price # 0 => gold.fetched = gold.a.price
       /\ gold.fetched # 0 =>
            gold.fetched = IF gold.bAttempted THEN gold.b.price ELSE gold.a.price

\* A answered 0, so B was asked, and B's implausible price gave way to the constant.
C6_Witness ==
  /\ gold.pc = "done"
  /\ gold.a.kind = "price" /\ gold.a.price = 0
  /\ gold.bAttempted /\ gold.b.kind = "price" /\ gold.b.price = 99
  /\ gold.usedConstant

\* C10: validateFile accepts a file exactly when its type is in the allowed
\* list and its size is at most 50MB for an audio or video type, 10MB for any
\* other; application/zip is rejected at any size; video/mp4 is accepted up to
\* and including 50MB and rejected above.
C10_AudioVideo ==
  { "video/mp4", "video/quicktime", "video/webm", "video/x-msvideo",
    "audio/mpeg", "audio/wav", "audio/x-wav", "audio/mp4", "audio/x-m4a",
    "audio/ogg" }

C10_Limit(type) ==
  IF type \in C10_AudioVideo THEN 50 * 1024 * 1024 ELSE 10 * 1024 * 1024

C10_ValidateFile ==
  vResult # "none" =>
    /\ vResult = "null" <=>
         (vFile.type \in ALLOWED_TYPES /\ vFile.size <= C10_Limit(vFile.type))
    /\ vFile.type = "application/zip" => vResult # "null"
    /\ vFile.type = "video/mp4" =>
         (vResult = "null" <=> vFile.size <= 50 * 1024 * 1024)

\* A video/mp4 file of exactly 50MB was accepted.
C10_Witness ==
  /\ vFile = [type |-> "video/mp4", size |-> 50 * 1024 * 1024]
  /\ vResult = "null"

\* C7: whatever keywords a query holds, detectIntent sets no live-data flag and
\* sets needsRAG; so no chat request starts a call to stock-market,
\* gold-prices, latest-news or politics, and the live-data context is empty.
C7_RagOnly ==
  /\ chat.pc # "idle" /\ chat.env.apiKey => chat.intent = detectIntent(chat.query)
  /\ \A s \in SourceSet : ~chat.intent.needs[s] /\ chat.calls[s] = 0
  /\ chat.intent.needsRAG
  /\ chat.started = {}
  /\ chat.liveDataContext = <<>>

\* A query with a gold and a news keyword, with the backend configured, went
\* on to the gateway without any live-data call.
C7_Witness ==
  /\ chat.pc = "gateway"
  /\ chat.query = << [text |-> "gold", script |-> "latin"],
                     [text |-> "news", script |-> "latin"] >>
  /\ chat.env.url /\ chat.env.anonKey
  /\ \A s \in SourceSet : chat.calls[s] = 0

\* C8: a non-OK gateway answer gives 429 for 429, 402 for 402 and 500 for any
\* other status; an absent gateway key gives 500 with no gateway call; the
\* 200 streamed response is given only when the gateway answered OK.
C8_StatusMapping ==
  chat.pc = "done" =>
    /\ ~chat.env.apiKey => chat.status = 500 /\ chat.gatewayCalls = 0
    /\ chat.gateway = 429 => chat.status = 429
    /\ chat.gateway = 402 => chat.status = 402
    /\ chat.gateway \in {400, 401, 500, 503} => chat.status = 500
    /\ chat.gateway = 0 => chat.status = 500
    /\ chat.status = 200 <=> chat.gateway \in {200, 201}

\* A rate-limited gateway answer was passed on as 429.
C8_Witness ==
  chat.pc = "done" /\ chat.gateway = 429 /\ chat.status = 429

\* C9: with the backend configured, each active flag starts exactly one call
\* of its fetcher and an inactive one none; the calls are all started before
\* any has settled; the handler goes past Promise.all only when every started
\* call has settled; a failed call contributes '' and does not fail the
\* request; the context is the non-empty summaries in the order stock, gold,
\* news, politics, whatever order the calls settled in.
C9_Settled(s) == chat.outcomes[s] # "none"

C9_Aggregator ==
  chat.pc # "idle" /\ chat.env.apiKey =>
    /\ \A s \in SourceSet :
         /\ chat.calls[s] =
              IF chat.intent.needs[s] /\ chat.env.url /\ chat.env.anonKey
              THEN 1 ELSE 0
         /\ C9_Settled(s) => chat.calls[s] = 1
         /\ chat.calls[s] = 1 /\ ~C9_Settled(s) => chat.results[s] = "pending"
         /\ C9_Settled(s) =>
              chat.results[s] = IF chat.outcomes[s] = "ok" THEN s ELSE ""
    /\ chat.pc = "join" => chat.gatewayCalls = 0
    /\ chat.pc \in {"gateway", "done"} =>
         /\ \A s \in SourceSet : chat.calls[s] = 1 => C9_Settled(s)
         /\ chat.gatewayCalls = 1
         /\ chat.liveDataContext =
              SelectSeq(<<"stock", "gold", "news", "politics">>,
                        LAMBDA s : chat.outcomes[s] = "ok")

\* All four calls were in flight together, settled in reverse order, the gold
\* one threw, and the context is stock, news, politics.
C9_Witness ==
  /\ chat.pc = "gateway"
  /\ chat.started = SourceSet
  /\ chat.completed = <<"politics", "news", "gold", "stock">>
  /\ chat.outcomes["gold"] = "throw"
  /\ chat.liveDataContext = <<"stock", "news", "politics">>

\* C11: every file a handleUpload run carries, and so every file that is sent
\* to storage or inserted as a document, passed validation: its type is an
\* allowed one and its size is within the limit of its type. The same holds of
\* the file the dialog holds as selected, whatever was selected, dropped or
\* rejected before.
C11_Passed(file) ==
  /\ file.type \in ALLOWED_TYPES
  /\ file.size <= (IF file.type \in MEDIA_TYPES THEN 50 * 1024 * 1024
                                                ELSE 10 * 1024 * 1024)

C11_OnlyValidatedFiles ==
  /\ selectedFile # NoFile => C11_Passed(selectedFile)
  /\ \A r \in Runs :
       /\ runs[r].pc # "idle" => C11_Passed(runs[r].file)
       /\ storage[r] \/ docs[r] # "norow" =>
            runs[r].pc # "idle" /\ C11_Passed(runs[r].file)

\* A file was stored and inserted, and a later pick was rejected as too large.
C11_Witness ==
  /\ uploadStatus = "error" /\ errorMessage = "too_large"
  /\ \E r \in Runs : storage[r] /\ docs[r] # "norow"

\* C12 (as stated): in every 200 response the 24K, 22K and 18K prices are in
\* that order, per gram and per 10 grams, and the 22K and 18K figures are
\* exactly 22/24 and 18/24 of the 24K figure.
C12_PurityExact ==
  gold.resp.status = 200 =>
    \A u \in {"perGram", "per10Grams"} :
      LET p == gold.resp.prices IN
        /\ p[24][u] >= p[22][u] /\ p[22][u] >= p[18][u]
        /\ 24 * p[22][u] = 22 * p[24][u]
        /\ 24 * p[18][u] = 18 * p[24][u]

\* C12 (amended): the order holds, and the 22K and 18K figures are 22/24 and
\* 18/24 of the 24K price up to the rounding of toFixed(2): each figure is
\* rounded on its own, so the 22K (18K) figure is less than one hundredth away
\* from 22/24 (18/24) of the 24K figure of the response.
C12_PurityRounded ==
  gold.resp.status = 200 =>
    \A u \in {"perGram", "per10Grams"} :
      LET p == gold.resp.prices IN
        /\ p[24][u] >= p[22][u] /\ p[22][u] >= p[18][u] /\ p[18][u] >= 0
        /\ 24 * p[22][u] - 22 * p[24][u] \in -23..23
        /\ 24 * p[18][u] - 18 * p[24][u] \in -21..21

\* The constant price at the default rate: 7194.69 per gram at 24K, 6595.13 at
\* 22K (22/24 of 7194.69 is 6595.1325) and 5396.02 at 18K.
C12_Witness ==
  /\ gold.resp.status = 200
  /\ gold.usedConstant /\ gold.ex.kind = "nonok"
  /\ gold.resp.prices[24].perGram = 719469
  /\ gold.resp.prices[22].perGram = 659513
  /\ gold.resp.prices[18].perGram = 539602
  /\ gold.resp.prices[24].per10Grams = 7194689

\* C13: detectLanguage answers 'hindi' when the text holds a Devanagari
\* character; otherwise 'urdu' when it holds an Arabic-script character;
\* otherwise 'hinglish' when one of its words is a Hinglish keyword, in either
\* case; otherwise 'english'. "kya hai yeh" is 'hinglish' and "what is this"
\* is 'english'.
C13_Has(text, script) == \E i \in 1..Len(text) : text[i].script = script

C13_Keyword(text) ==
  \E i \in 1..Len(text) :
    /\ text[i].script = "latin"
    /\ text[i].text \in {"kya", "KYA", "hai", "yeh"}

C13_Latin(seq) == [i \in 1..Len(seq) |-> [text |-> seq[i], script |-> "latin"]]

C13_Priority ==
  dlResult # "none" =>
    /\ C13_Has(dlText, "devanagari") => dlResult = "hindi"
    /\ ~C13_Has(dlText, "devanagari") /\ C13_Has(dlText, "arabic") =>
         dlResult = "urdu"
    /\ /\ ~C13_Has(dlText, "devanagari") /\ ~C13_Has(dlText, "arabic")
       /\ C13_Keyword(dlText)
       => dlResult = "hinglish"
    /\ /\ ~C13_Has(dlText, "devanagari") /\ ~C13_Has(dlText, "arabic")
       /\ ~C13_Keyword(dlText)
       => dlResult = "english"
    /\ dlText = C13_Latin(<<"kya", "hai", "yeh">>) => dlResult = "hinglish"
    /\ dlText = C13_Latin(<<"what", "is", "this">>) => dlResult = "english"

\* A text with an Arabic-script word, a Hinglish keyword and a Devanagari
\* word, in that order, was detected as 'hindi'.
C13_Witness ==
  /\ dlText = << [text |-> "sona", script |-> "arabic"],
                 [text |-> "kya", script |-> "latin"],
                 [text |-> "sona", script |-> "devanagari"] >>
  /\ dlResult = "hindi"

C15_SameLanguage(named, instruction) ==
  <<named, instruction>> \in
    { <<"ENGLISH", "english">>, <<"HINDI", "hindi">>,
      <<"HINGLISH", "hinglish">>, <<"URDU", "urdu">> }

C15_LanguageSelection ==
  chat.pc \in {"gateway", "done"} /\ chat.gatewayCalls = 1 =>
    /\ chat.effectiveLanguage =
         IF chat.pref \in {"undefined", "", "auto"}
         THEN detectLanguage(chat.query) ELSE chat.pref
    /\ C15_SameLanguage(chat.systemPrompt.language,
                        chat.systemPrompt.langInstruction)

\* C16: within one transcription request the AI gateway is called at most
\* once and only once the download succeeded; the row update is sent at most
\* once and only once the gateway answered with a non-empty transcript; the
\* handler writes the row at most once, only in that update, and a request
\* answered with a failure has left the row as it was.
C16_State ==
  \A r \in Runs :
    LET h == handler[r] IN
      /\ h.aiCalls <= 1 /\ h.updCalls <= 1 /\ docWrites[r] <= 1
      /\ h.aiCalls = 1 <=> h.dl = "ok"
      /\ h.ai # "none" => h.aiCalls = 1
      /\ h.updCalls = 1 <=> h.ai = "ok"
      /\ h.upd # "none" => h.updCalls = 1
      /\ docWrites[r] = 1 => h.upd = "ok" /\ h.ai = "ok" /\ h.dl = "ok"
      /\ docs[r] = "transcript" <=> docWrites[r] = 1
      /\ h.pc = "done" /\ (h.resp.status # 200 \/ ~h.resp.success) =>
           docWrites[r] = 0 /\ docs[r] \in {"norow", "processing"}

C16_Step ==
  \A r \in Runs :
    /\ handler'[r].aiCalls # handler[r].aiCalls =>
         handler[r].pc = "download" /\ handler'[r].dl = "ok"
    /\ handler'[r].updCalls # handler[r].updCalls =>
         handler[r].pc = "ai" /\ handler'[r].ai = "ok"
    /\ docs'[r] # docs[r] /\ handler[r].pc # "none" =>
         /\ handler[r].pc = "update" /\ handler'[r].upd = "ok"
         /\ docs'[r] = "transcript"
         /\ handler'[r].resp = [status |-> 200, success |-> TRUE]

C16_Order == []C16_State /\ [][C16_Step]_vars

\* One request stored its transcript; another one got an empty answer from
\* the gateway and failed with its row still the processing placeholder.
C16_Witness ==
  \E r1, r2 \in Runs :
    /\ docs[r1] = "transcript" /\ handler[r1].resp.success
    /\ handler[r1].aiCalls = 1 /\ handler[r1].updCalls = 1
    /\ handler[r2].ai = "empty" /\ handler[r2].resp.status = 500
    /\ handler[r2].updCalls = 0 /\ docs[r2] = "processing"

\* C17 (as stated): at most one handleUpload run of the dialog is in progress
\* at any time: a run starts only when every earlier run has ended (in the
\* success tail or in the catch block).
C17_InProgress(r) == runs[r].pc \notin {"idle", "done"}

C17_SingleUpload ==
  \A r1, r2 \in Runs : C17_InProgress(r1) /\ C17_InProgress(r2) => r1 = r2

\* C18 (as stated): a transcript the handler stored in a row stays there: the
\* dialog's failure placeholder is written only to a row without a stored
\* transcript; the row of a media file is changed at most once after its
\* insert and holds the processing placeholder, the failure placeholder or
\* the transcript.
C18_TranscriptKept ==
  [][\A r \in Runs :
       /\ docs[r] = "transcript" => docs'[r] = "transcript"
       /\ docWrites'[r] <= 1
       /\ IsMedia(runs[r].file.type) /\ docs'[r] # "norow" =>
            docs'[r] \in {"processing", "failed", "transcript"}]_vars

\* C19: a row is inserted only for a file whose storage upload succeeded; the
\* transcription handler is called only for a run whose insert succeeded and
\* whose file is of a media type; a run whose storage upload or insert failed
\* ends in the catch block, with status 'error', no row written by that step
\* and no transcription call.
C19_State ==
  \A r \in Runs :
    /\ docs[r] # "norow" => storage[r]
    /\ handler[r].pc # "none" =>
         /\ docs[r] # "norow" /\ storage[r]
         /\ runs[r].file.type \in MEDIA_TYPES
         /\ runs[r].pc \in {"fetch", "mark", "done"}
    /\ runs[r].pc \in {"upload", "text", "insert"} =>
         docs[r] = "norow" /\ handler[r].pc = "none"
    /\ runs[r].pc = "upload" => ~storage[r]

C19_Failed(r) ==
  /\ runs[r].pc \in {"upload", "insert"} /\ runs'[r].pc = "done"
  /\ docs'[r] = "norow"

C19_Step ==
  \A r \in Runs :
    /\ docs[r] = "norow" /\ docs'[r] # "norow" =>
         runs[r].pc = "insert" /\ storage[r]
    /\ handler[r].pc = "none" /\ handler'[r].pc # "none" =>
         /\ runs[r].pc = "insert" /\ docs'[r] # "norow"
         /\ runs[r].file.type \in MEDIA_TYPES
    /\ C19_Failed(r) =>
         /\ uploadStatus' = "error"
         /\ handler'[r].pc = "none"
         /\ runs'[r].toast = "failed"

C19_Order == []C19_State /\ [][C19_Step]_vars

\* One run's insert failed after its file was stored, and the dialog shows the
\* error; another run, of a media file, got as far as the transcription call.
C19_Witness ==
  \E r1, r2 \in Runs :
    /\ runs[r1].pc = "done" /\ runs[r1].toast = "failed"
    /\ storage[r1] /\ docs[r1] = "norow" /\ handler[r1].pc = "none"
    /\ uploadStatus = "error"
    /\ handler[r2].pc # "none" /\ docs[r2] = "processing" /\ storage[r2]

\* C20: provided every awaited call settles, a dialog in 'uploading' or in
\* 'transcribing' eventually reaches 'success' or 'error'; after 'success' the
\* timer callback eventually runs: the dialog is then 'idle' with no selected
\* file, progress 0 and no error message, and onUploadComplete has been called
\* once more.
C20_Reset ==
  /\ uploadStatus = "idle" /\ selectedFile = NoFile
  /\ uploadProgress = 0 /\ errorMessage = ""

C20_Terminates ==
  /\ (uploadStatus \in {"uploading", "transcribing"})
       ~> (uploadStatus \in {"success", "error"})
  /\ \A n \in 0..MaxRuns :
       (uploadStatus = "success" /\ completes = n)
         ~> (C20_Reset /\ completes > n)

\* A media upload went through 'transcribing' to 'success', its timer ran and
\* the closed dialog is back in its initial state.
C20_Witness ==
  /\ \E r \in Runs : runs[r].pc = "done" /\ runs[r].toast = "transcribed"
  /\ completes = 1 /\ timers = 0 /\ ~open
  /\ C20_Reset

====
